---- MODULE Spec2Model ----
(***************************************************************************)
(* Model of scripts/create_real_estate_dashboard.py: the synthetic data    *)
(* generator (RealEstateAnalyzer.fetch_sample_data), the SQLite store it   *)
(* replaces, and the metric computations of create_investment_dashboard.   *)
(*                                                                         *)
(* Units.  Money is in whole dollars.  Values the code rounds to d         *)
(* decimals are kept as integers scaled by 10^d: price_per_sqft and        *)
(* cap_rate in hundredths, the per-state means and investment_score in     *)
(* tenths.  Floating-point arithmetic is modelled by exact rational        *)
(* arithmetic followed by the rounding the code applies.  The wall clock   *)
(* is counted in ticks of half a day; a date is a day number.              *)
(***************************************************************************)
EXTENDS Integers, Sequences, FiniteSets, TLC

VARIABLES
    pc,            \* position of the process in main()
    run,           \* number of executions of main() started so far
    now,           \* the wall clock, in ticks (datetime.now())
    db,            \* the properties table of real_estate.db
    tape,          \* the stream of draws the seeded generator yields
    pos,           \* position of the generator in that stream
    city_i,        \* index of the city the outer loop is at
    remaining,     \* iterations the inner loop still has to do
    property_id,   \* the local counter of fetch_sample_data
    properties,    \* the local list of fetch_sample_data
    df,            \* the DataFrame handed to create_investment_dashboard
    opportunity_data,  \* per-state aggregates and investment_score
    size_bins,     \* the pd.cut bucket of every row
    top_properties,    \* the rows df.nlargest(5, 'simple_score') selected
    cash_flow_tiers,   \* the pd.cut tier of every row
    gen_days,      \* history: the date each record of the list was made on
    prev,          \* history: what the previous execution generated
    db_before      \* history: the stored table when this execution started

vars == <<pc, run, now, db, tape, pos, city_i, remaining, property_id,
          properties, df, opportunity_data, size_bins, top_properties,
          cash_flow_tiers, gen_days, prev, db_before>>

(***************************************************************************)
(* Bounds of the model.                                                    *)
(***************************************************************************)
MaxRuns == 2        \* executions of main() in one behaviour
MaxClock == 2       \* the wall clock runs from tick 0 to this tick
MaxRows == 3        \* rows of a table handed to the dashboard directly
MaxTopRows == 6     \* rows of a table of the top-properties family

TicksPerDay == 2

(***************************************************************************)
(* Arithmetic.                                                             *)
(***************************************************************************)
Abs(x) == IF x < 0 THEN -x ELSE x

Sgn(x) == IF x < 0 THEN -1 ELSE IF x > 0 THEN 1 ELSE 0

Max(a, b) == IF a >= b THEN a ELSE b

\* int(n / d) of Python: the quotient truncated toward zero.
Trunc(n, d) == Sgn(n) * Sgn(d) * (Abs(n) \div Abs(d))

\* round(n / d) of Python and of numpy: the nearest integer, a tie going to
\* the even one.
RoundHalfEven(n, d) ==
    LET m == n * Sgn(d)
        e == Abs(d)
        q == m \div e
        r == m % e
    IN  IF 2 * r < e THEN q
        ELSE IF 2 * r > e THEN q + 1
        ELSE IF q % 2 = 0 THEN q ELSE q + 1

\* The date of a clock value, as strftime('%Y-%m-%d') prints it.
Day(t) == t \div TicksPerDay

(***************************************************************************)
(* The generator: fetch_sample_data.                                       *)
(***************************************************************************)
\* The head of the code's list of twelve (city, state) pairs.
cities ==
    << [city |-> "Austin", state |-> "TX"],
       [city |-> "Denver", state |-> "CO"] >>

\* base_price_map.get(city, 300000).  Every base price is a multiple of 1000.
base_price(city) ==
    CASE city = "Austin" -> 400000
      [] city = "Denver" -> 450000
      [] OTHER -> 300000

\* np.random.randint(15, 26), scaled down: the number of properties of a city.
PropertyCounts == {1, 2}

\* The draws one iteration of the inner loop consumes.  sqft_dev is the
\* deviation of the normal draw from its mean, in half square feet;
\* price_variation is in hundredths; rental_yield, within [0.008, 0.02), and
\* property_tax_rate, within [0.008, 0.025), are in ten-thousandths.  A
\* normal draw has no bound, so the deviations and variations reach zero and
\* below.  The address, zip_code, bathrooms and property_type draws are
\* copied into the record and read by no computation modelled here.
Draw(b, dev, pv, ry, tr, dom, ago) ==
    [bedrooms |-> b, sqft_dev |-> dev, price_variation |-> pv,
     rental_yield |-> ry, property_tax_rate |-> tr,
     days_on_market |-> dom, days_ago |-> ago]

PropertyDraws ==
    { Draw(3, 0, 100, 100, 120, 30, 1),        \* 2100 sqft, at the base price
      Draw(2, -1199, 125, 80, 249, 0, 549),    \* 1200.5 sqft, lowest yield
      Draw(2, -3800, 100, 199, 80, 45, 1),     \* -100 sqft
      Draw(2, -3599, 100, 100, 100, 45, 549),  \* 0.5 sqft
      Draw(4, 0, -50, 120, 100, 7, 1),         \* negative price variation
      Draw(5, -400, 0, 150, 200, 90, 549) }    \* zero price variation

\* One cell of the stream: the draw of a city's count, or of a property.
CountCells == { [k |-> "count", v |-> n] : n \in PropertyCounts }

PropertyCells == { [k |-> "property", v |-> d] : d \in PropertyDraws }

\* np.random.seed(42): the generator is put back at the start of its stream.
ReseedSkipped(p) == p

Reseed(p) == 1

\* The stream after a cell was drawn at position p: a position drawn before
\* yields what it yielded then, a new one extends the stream.
Drawn(p, cell) == IF p <= Len(tape) THEN tape ELSE Append(tape, cell)

CanDraw(p, cell) == p <= Len(tape) => tape[p] = cell

\* int(np.random.normal(1200 + bedrooms * 300, 200))
SquareFeet(d) == Trunc(2 * (1200 + d.bedrooms * 300) + d.sqft_dev, 2)

\* int(base_price * price_variation * size_multiplier), with
\* size_multiplier = square_feet / 1500
RawPrice(base, d) ==
    Trunc((base \div 1000) * d.price_variation * SquareFeet(d), 150)

MinPrice == 50000

ClampPriceMissing(p) == p

\* max(price, 50000)
ClampPrice(p) == Max(p, MinPrice)

Price(base, d) == ClampPrice(RawPrice(base, d))

\* int(price * rental_yield)
EstimatedRental(price, d) == Trunc(price * d.rental_yield, 10000)

\* int(price * property_tax_rate)
PropertyTaxes(price, d) == Trunc(price * d.property_tax_rate, 10000)

\* (datetime.now() - timedelta(days=days_ago)).strftime('%Y-%m-%d')
ListingDate(t, d) == Day(t - d.days_ago * TicksPerDay)

\* round(price / square_feet, 2), in hundredths; square_feet is not zero
PricePerSqft(price, square_feet) == RoundHalfEven(price * 100, square_feet)

\* The dict property_data of one iteration.
PropertyData(id, c, d, t) ==
    LET price == Price(base_price(c.city), d)
    IN  [property_id |-> id,
         city |-> c.city,
         state |-> c.state,
         price |-> price,
         bedrooms |-> d.bedrooms,
         square_feet |-> SquareFeet(d),
         estimated_rental_income |-> EstimatedRental(price, d),
         property_taxes |-> PropertyTaxes(price, d),
         listing_date |-> ListingDate(t, d),
         days_on_market |-> d.days_on_market,
         price_per_sqft |-> PricePerSqft(price, SquareFeet(d))]

BaseColumns ==
    {"property_id", "city", "state", "price", "bedrooms", "square_feet",
     "estimated_rental_income", "property_taxes", "listing_date",
     "days_on_market", "price_per_sqft"}

PropertyIdKept(id) == id

\* property_id += 1
NextPropertyId(id) == id + 1

\* df.to_sql('properties', conn, if_exists='replace', index=False)
ToSqlAppend(stored, rows) == [exists |-> TRUE, rows |-> stored.rows \o rows]

ToSql(stored, rows) == [exists |-> TRUE, rows |-> rows]

NoTable == [exists |-> FALSE, rows |-> << >>]

CreateTableAfterDrop(stored) == [exists |-> TRUE, rows |-> << >>]

\* CREATE TABLE IF NOT EXISTS properties (...)
CreateTableIfNotExists(stored) ==
    IF stored.exists THEN stored ELSE [exists |-> TRUE, rows |-> << >>]

NoFrame == << >>

NoOpportunity == << >>

dashVars == <<df, opportunity_data, size_bins, top_properties, cash_flow_tiers>>

genVars == <<tape, pos, city_i, remaining, property_id, properties>>

histVars == <<gen_days, prev, db_before>>

\* main(): RealEstateAnalyzer() runs setup_database, CREATE TABLE IF NOT
\* EXISTS; an existing table keeps its rows.
SetupDatabase ==
    /\ pc = "idle"
    /\ run < MaxRuns
    /\ run' = run + 1
    /\ db' = CreateTableIfNotExists(db)
    /\ db_before' = db
    /\ pc' = "fetch"
    /\ UNCHANGED <<now, genVars, dashVars, gen_days, prev>>

\* fetch_sample_data up to its outer loop: the seed, the empty list, the
\* counter at 1.
FetchBegin ==
    /\ pc = "fetch"
    /\ pos' = Reseed(pos)
    /\ properties' = << >>
    /\ property_id' = 1
    /\ city_i' = 1
    /\ remaining' = 0
    /\ pc' = "city"
    /\ df' = NoFrame
    /\ opportunity_data' = NoOpportunity
    /\ size_bins' = << >>
    /\ top_properties' = << >>
    /\ cash_flow_tiers' = << >>
    /\ gen_days' = << >>
    /\ UNCHANGED <<run, now, db, tape, prev, db_before>>

\* The head of the outer loop: the next city and its count, or the end of
\* the loop.
NextCity ==
    /\ pc = "city"
    /\ city_i <= Len(cities)
    /\ \E cell \in CountCells :
          /\ CanDraw(pos, cell)
          /\ tape' = Drawn(pos, cell)
          /\ remaining' = cell.v
    /\ pos' = pos + 1
    /\ pc' = "property"
    /\ UNCHANGED <<run, now, db, city_i, property_id, properties, dashVars,
                   histVars>>

\* One iteration of the inner loop.  price / square_feet raises
\* ZeroDivisionError when square_feet is 0: nothing is appended and the
\* exception leaves fetch_sample_data and main.
GenerateProperty ==
    /\ pc = "property"
    /\ \E cell \in PropertyCells :
          /\ CanDraw(pos, cell)
          /\ tape' = Drawn(pos, cell)
          /\ IF SquareFeet(cell.v) = 0
             THEN /\ pc' = "error"
                  /\ UNCHANGED <<properties, property_id, remaining, city_i,
                                 gen_days>>
             ELSE /\ properties' =
                        Append(properties,
                               PropertyData(property_id, cities[city_i],
                                            cell.v, now))
                  /\ gen_days' = Append(gen_days, Day(now))
                  /\ property_id' = NextPropertyId(property_id)
                  /\ remaining' = remaining - 1
                  /\ city_i' = IF remaining = 1 THEN city_i + 1 ELSE city_i
                  /\ pc' = IF remaining = 1 THEN "city" ELSE "property"
    /\ pos' = pos + 1
    /\ UNCHANGED <<run, now, db, dashVars, prev, db_before>>

\* After the loops: the DataFrame of the list replaces the stored table and
\* is returned to main, which hands it to create_investment_dashboard.
SaveToDatabase ==
    /\ pc = "city"
    /\ city_i > Len(cities)
    /\ db' = ToSql(db, properties)
    /\ df' = properties
    /\ pc' = "metrics"
    /\ UNCHANGED <<run, now, genVars, opportunity_data, size_bins,
                   top_properties, cash_flow_tiers, histVars>>

\* Time passes.  The clock is read in the inner loop only, so a tick at any
\* other place of an execution shows as a tick at the next of these.
Tick ==
    /\ pc \in {"idle", "property"}
    /\ now < MaxClock
    /\ now' = now + 1
    /\ UNCHANGED <<pc, run, db, genVars, dashVars, histVars>>

(***************************************************************************)
(* The metrics: create_investment_dashboard.  The tables it is given hold  *)
(* positive prices.                                                        *)
(***************************************************************************)
\* A float that is a number n/d, or what a division by zero leaves.
Fin(n, d) == [k |-> "fin", n |-> n, d |-> d]

NaN == [k |-> "nan", n |-> 0, d |-> 1]

NegInf == [k |-> "-inf", n |-> 0, d |-> 1]

\* The sign of a/b - c/d for a, c >= 0 and b, d > 0, by the continued
\* fractions of the two: no product is formed.
RECURSIVE CmpFrac(_, _, _, _)
CmpFrac(a, b, c, d) ==
    LET qa == a \div b
        qc == c \div d
        ra == a % b
        rc == c % d
    IN  IF qa # qc THEN (IF qa < qc THEN -1 ELSE 1)
        ELSE IF ra = 0 /\ rc = 0 THEN 0
        ELSE IF ra = 0 THEN -1
        ELSE IF rc = 0 THEN 1
        ELSE CmpFrac(d, rc, b, ra)

\* n1/d1 + n2/d2 + n3/d3 rounded to the nearest integer, a tie to the even
\* one; no denominator is zero.
RoundSum3(n1, d1, n2, d2, n3, d3) ==
    LET m1 == n1 * Sgn(d1)
        e1 == Abs(d1)
        m2 == n2 * Sgn(d2)
        e2 == Abs(d2)
        m3 == n3 * Sgn(d3)
        e3 == Abs(d3)
        whole == (m1 \div e1) + (m2 \div e2) + (m3 \div e3)
        a == (m1 % e1) * e2 + (m2 % e2) * e1
        b == e1 * e2
        r3 == m3 % e3
        \* the sign of a/b + r3/e3 - h/2
        AgainstHalves(h) ==
            IF h * e3 - 2 * r3 < 0 THEN 1
            ELSE CmpFrac(a, b, h * e3 - 2 * r3, 2 * e3)
        w == IF AgainstHalves(4) >= 0 THEN 2
             ELSE IF AgainstHalves(2) >= 0 THEN 1 ELSE 0
        low == whole + w
        side == AgainstHalves(2 * w + 1)
    IN  IF side < 0 THEN low
        ELSE IF side > 0 THEN low + 1
        ELSE IF low % 2 = 0 THEN low ELSE low + 1

\* df['estimated_rental_income'] * 12
annual_rental(r) == r.estimated_rental_income * 12

\* (df['annual_rental'] / df['price'] * 100).round(2), in hundredths
cap_rate(r) == RoundHalfEven(annual_rental(r) * 10000, r.price)

NoMaintenanceReserve(r) ==
    RoundHalfEven(6000 * r.estimated_rental_income
                    - 18 * r.price
                    - 500 * r.property_taxes,
                  6000)

TaxesOfTheYear(r) ==
    RoundHalfEven(6000 * r.estimated_rental_income
                    - 18 * r.price
                    - 6000 * r.property_taxes
                    - 600 * r.estimated_rental_income,
                  6000)

\* (rental - price * 0.80 * 0.045 / 12 - taxes / 12 - rental * 0.1).round(0),
\* the four terms over the common denominator 6000
monthly_cash_flow(r) ==
    RoundHalfEven(6000 * r.estimated_rental_income
                    - 18 * r.price
                    - 500 * r.property_taxes
                    - 600 * r.estimated_rental_income,
                  6000)

WithMetrics(r) ==
    r @@ [annual_rental |-> annual_rental(r),
          cap_rate |-> cap_rate(r),
          monthly_cash_flow |-> monthly_cash_flow(r)]

Rows(t) == 1 .. Len(t)

States(t) == { t[i].state : i \in Rows(t) }

RowsOf(t, s) == { i \in Rows(t) : t[i].state = s }

RECURSIVE SumOver(_, _, _)
SumOver(t, I, col) ==
    IF I = {} THEN 0
    ELSE LET i == CHOOSE x \in I : TRUE
         IN  t[i][col] + SumOver(t, I \ {i}, col)

SetMax(S) == CHOOSE x \in S : \A y \in S : y <= x

SetMin(S) == CHOOSE x \in S : \A y \in S : x <= y

\* df.groupby('state').agg({...: 'mean'}).round(1): the mean of a column over
\* the rows of state s, in tenths; scale is the column's own scale.
GroupMean(t, s, col, scale) ==
    RoundHalfEven(10 * SumOver(t, RowsOf(t, s), col),
                  scale * Cardinality(RowsOf(t, s)))

Aggregates(t) ==
    [s \in States(t) |->
        [cap_rate |-> GroupMean(t, s, "cap_rate", 100),
         monthly_cash_flow |-> GroupMean(t, s, "monthly_cash_flow", 1),
         price |-> GroupMean(t, s, "price", 1)]]

InvestmentScoreWeightsSwapped(c, f, p, cmax, fmax, pmin) ==
    IF (cmax = 0 /\ c = 0) \/ (fmax = 0 /\ f = 0) THEN NaN
    ELSE IF cmax = 0 \/ fmax = 0 THEN NegInf
    ELSE Fin(RoundSum3(300 * c, cmax, 500 * f, fmax, 200 * pmin, p), 10)

\* (cap_rate / cap_rate.max() * 50 + monthly_cash_flow /
\* monthly_cash_flow.max() * 30 + 1 / (price / price.min()) * 20).round(1),
\* in tenths.  A maximum that is 0 divides 0 or a negative mean.
InvestmentScore(c, f, p, cmax, fmax, pmin) ==
    IF (cmax = 0 /\ c = 0) \/ (fmax = 0 /\ f = 0) THEN NaN
    ELSE IF cmax = 0 \/ fmax = 0 THEN NegInf
    ELSE Fin(RoundSum3(500 * c, cmax, 300 * f, fmax, 200 * pmin, p), 10)

OpportunityData(t) ==
    LET agg == Aggregates(t)
        cmax == SetMax({ agg[s].cap_rate : s \in States(t) })
        fmax == SetMax({ agg[s].monthly_cash_flow : s \in States(t) })
        pmin == SetMin({ agg[s].price : s \in States(t) })
    IN  [s \in States(t) |->
            agg[s] @@
            [investment_score |->
                InvestmentScore(agg[s].cap_rate, agg[s].monthly_cash_flow,
                                agg[s].price, cmax, fmax, pmin)]]

\* pd.cut(df['square_feet'], bins=[0, 1000, 1500, 2000, 5000], labels=[...]):
\* pd.cut closes each bin on the right, and a value in no bin gets NaN.
SizeBin(x) ==
    IF 0 < x /\ x <= 1000 THEN "<1000"
    ELSE IF 1000 < x /\ x <= 1500 THEN "1000-1500"
    ELSE IF 1500 < x /\ x <= 2000 THEN "1500-2000"
    ELSE IF 2000 < x /\ x <= 5000 THEN ">2000"
    ELSE "NaN"

\* cap_rate * 0.4 + (monthly_cash_flow / monthly_cash_flow.max() * 10) * 0.6
\* of one row, mx being the maximum: a fraction over 1000 * |mx|.
SimpleScore(r, mx) ==
    IF mx = 0 /\ r.monthly_cash_flow = 0 THEN NaN
    ELSE IF mx = 0 THEN NegInf
    ELSE Fin((4 * r.cap_rate * mx + 6000 * r.monthly_cash_flow) * Sgn(mx),
             1000 * Abs(mx))

WithSimpleScore(t) ==
    LET mx == SetMax({ t[i].monthly_cash_flow : i \in Rows(t) })
    IN  [i \in Rows(t) |-> t[i] @@ [simple_score |-> SimpleScore(t[i], mx)]]

\* x > y of two floats of one column (the finite ones share a denominator).
Greater(x, y) ==
    /\ x.k = "fin"
    /\ \/ y.k = "-inf"
       \/ y.k = "fin" /\ x.n > y.n

TopN == 5

\* Row i comes before row j in the order of nlargest: the larger score, of
\* equal scores the earlier row (keep='first'), a NaN after every number.
BeforeKeepLast(t, i, j) ==
    IF t[i].simple_score.k = "nan" \/ t[j].simple_score.k = "nan"
    THEN \/ t[i].simple_score.k # "nan"
         \/ t[j].simple_score.k = "nan" /\ i < j
    ELSE \/ Greater(t[i].simple_score, t[j].simple_score)
         \/ ~Greater(t[j].simple_score, t[i].simple_score) /\ i > j

Before(t, i, j) ==
    IF t[i].simple_score.k = "nan" \/ t[j].simple_score.k = "nan"
    THEN \/ t[i].simple_score.k # "nan"
         \/ t[j].simple_score.k = "nan" /\ i < j
    ELSE \/ Greater(t[i].simple_score, t[j].simple_score)
         \/ ~Greater(t[j].simple_score, t[i].simple_score) /\ i < j

\* df.nlargest(5, 'simple_score'): the index labels of the rows selected.
NLargest(t) ==
    LET place(i) == 1 + Cardinality({ j \in Rows(t) : Before(t, j, i) })
        n == IF Len(t) < TopN THEN Len(t) ELSE TopN
    IN  [q \in 1 .. n |-> CHOOSE i \in Rows(t) : place(i) = q]

\* pd.cut(df['monthly_cash_flow'], bins=[-np.inf, 0, 200, 500, np.inf], ...)
CashFlowTier(x) ==
    IF x <= 0 THEN "Negative"
    ELSE IF x <= 200 THEN "Low (0-$200)"
    ELSE IF x <= 500 THEN "Medium ($200-$500)"
    ELSE "High ($500+)"

\* Lines 157-164: the three metric columns.
ComputeMetrics ==
    /\ pc = "metrics"
    /\ df' = [i \in Rows(df) |-> WithMetrics(df[i])]
    /\ pc' = "opportunity"
    /\ UNCHANGED <<run, now, db, genVars, opportunity_data, size_bins,
                   top_properties, cash_flow_tiers, histVars>>

\* Lines 206-217: the per-state aggregates and their investment_score.
Opportunity ==
    /\ pc = "opportunity"
    /\ opportunity_data' = OpportunityData(df)
    /\ pc' = "size"
    /\ UNCHANGED <<run, now, db, genVars, df, size_bins, top_properties,
                   cash_flow_tiers, histVars>>

\* Lines 254-256: the size bucket of every row.
SizeBuckets ==
    /\ pc = "size"
    /\ size_bins' = [i \in Rows(df) |-> SizeBin(df[i].square_feet)]
    /\ pc' = "top"
    /\ UNCHANGED <<run, now, db, genVars, df, opportunity_data,
                   top_properties, cash_flow_tiers, histVars>>

\* Lines 266-269: the simple_score column and the five largest.
TopProperties ==
    /\ pc = "top"
    /\ df' = WithSimpleScore(df)
    /\ top_properties' = NLargest(WithSimpleScore(df))
    /\ pc' = "kpi"
    /\ UNCHANGED <<run, now, db, genVars, opportunity_data, size_bins,
                   cash_flow_tiers, histVars>>

AllScoresNaN ==
    \A s \in DOMAIN opportunity_data :
        opportunity_data[s].investment_score.k = "nan"

\* Lines 329-353: positive_cash_flow / total_properties raises
\* ZeroDivisionError on an empty table.  idxmax() of scores that are all
\* NaN returns NaN or raises ValueError, by the version of pandas.
KeyPerformanceIndicators ==
    /\ pc = "kpi"
    /\ \/ /\ Len(df) = 0
          /\ pc' = "error"
       \/ /\ Len(df) > 0
          /\ pc' = "summary"
       \/ /\ Len(df) > 0
          /\ AllScoresNaN
          /\ pc' = "error"
    /\ UNCHANGED <<run, now, db, genVars, dashVars, histVars>>

\* create_executive_summary, lines 395-398: the cash-flow tier of every row;
\* then main prints its last lines.
ExecutiveSummary ==
    /\ pc = "summary"
    /\ cash_flow_tiers' =
          [i \in Rows(df) |-> CashFlowTier(df[i].monthly_cash_flow)]
    /\ pc' = "done"
    /\ UNCHANGED <<run, now, db, genVars, df, opportunity_data, size_bins,
                   top_properties, histVars>>

\* The process ends, by the end of main or by the exception, and the script
\* may be run again.
Exit ==
    /\ pc \in {"done", "error"}
    /\ prev' = [ok |-> pc = "done", rows |-> properties, days |-> gen_days]
    /\ pc' = "idle"
    /\ UNCHANGED <<run, now, db, genVars, dashVars, gen_days, db_before>>

(***************************************************************************)
(* The script run from the command line, any number of times.              *)
(***************************************************************************)
NoPrev == [ok |-> FALSE, rows |-> << >>, days |-> << >>]

Init ==
    /\ pc = "idle"
    /\ run = 0
    /\ now = 0
    /\ db = NoTable
    /\ tape = << >>
    /\ pos = 1
    /\ city_i = 1
    /\ remaining = 0
    /\ property_id = 1
    /\ properties = << >>
    /\ df = NoFrame
    /\ opportunity_data = NoOpportunity
    /\ size_bins = << >>
    /\ top_properties = << >>
    /\ cash_flow_tiers = << >>
    /\ gen_days = << >>
    /\ prev = NoPrev
    /\ db_before = NoTable

Dashboard ==
    \/ ComputeMetrics
    \/ Opportunity
    \/ SizeBuckets
    \/ TopProperties
    \/ KeyPerformanceIndicators
    \/ ExecutiveSummary

Next ==
    \/ SetupDatabase
    \/ FetchBegin
    \/ NextCity
    \/ GenerateProperty
    \/ SaveToDatabase
    \/ Dashboard
    \/ Exit
    \/ Tick

Spec == Init /\ [][Next]_vars

(***************************************************************************)
(* The script run where ../data/real_estate.db is already there: the file  *)
(* outlives the process, and what it holds when main() starts is whatever  *)
(* an earlier execution, of this or of another version of the script, left *)
(* in it.                                                                  *)
(***************************************************************************)
StoredTables ==
    { NoTable,
      [exists |-> TRUE, rows |-> << >>],
      ToSql(NoTable, << PropertyData(1, cities[1],
                                     Draw(3, 0, 100, 100, 120, 30, 1), 0),
                        PropertyData(2, cities[2],
                                     Draw(2, -3800, 100, 80, 249, 30, 1), 0),
                        PropertyData(3, cities[2],
                                     Draw(4, 0, 100, 150, 100, 7, 1), 0) >>) }

InitStored ==
    /\ pc = "idle"
    /\ run = 0
    /\ now = 0
    /\ db \in StoredTables
    /\ tape = << >>
    /\ pos = 1
    /\ city_i = 1
    /\ remaining = 0
    /\ property_id = 1
    /\ properties = << >>
    /\ df = NoFrame
    /\ opportunity_data = NoOpportunity
    /\ size_bins = << >>
    /\ top_properties = << >>
    /\ cash_flow_tiers = << >>
    /\ gen_days = << >>
    /\ prev = NoPrev
    /\ db_before \in StoredTables
    /\ db_before = db

NextStored ==
    \/ SetupDatabase
    \/ FetchBegin
    \/ NextCity
    \/ GenerateProperty
    \/ SaveToDatabase
    \/ Dashboard
    \/ Exit
    \/ Tick

SpecStored == InitStored /\ [][NextStored]_vars

(***************************************************************************)
(* create_investment_dashboard applied to a table of its caller's.         *)
(***************************************************************************)
DashRow(st, price, rent, taxes, sqft) ==
    [property_id |-> 0,
     city |-> IF st = "TX" THEN "Austin" ELSE "Denver",
     state |-> st,
     price |-> price,
     bedrooms |-> 3,
     square_feet |-> sqft,
     estimated_rental_income |-> rent,
     property_taxes |-> taxes,
     listing_date |-> 0,
     days_on_market |-> 30,
     price_per_sqft |-> IF sqft = 0 THEN 0 ELSE PricePerSqft(price, sqft)]

\* Rows of small tables.
DashRows ==
    { DashRow("TX", 300000, 2000, 3600, 1750),
      DashRow("CO", 300001, 2000, 3600, 1000),
      DashRow("TX", 1000, 10, 12, 999),
      DashRow("CO", 1000, 5, 18, 0),        \* a cash flow of 0
      DashRow("TX", 1000, 0, 0, 5001),      \* a cap rate of 0
      DashRow("CO", 500, 5, 6, 2000),       \* a cash flow of 2.5 unrounded
      DashRow("CO", 900, 10, 12, 1500) }    \* a cap rate of 13.33

\* Rows of the longer tables.
TopRows ==
    { DashRow("TX", 1000, 10, 12, 999),
      DashRow("CO", 1000, 5, 18, 0),
      DashRow("TX", 1000, 0, 0, 5001) }

\* The rows numbered as a DataFrame's are.
Numbered(t) == [i \in Rows(t) |-> [t[i] EXCEPT !.property_id = i]]

DashTables ==
    { Numbered(t) :
        t \in UNION ({ [1 .. n -> DashRows] : n \in 0 .. MaxRows }
                       \cup { [1 .. n -> TopRows] : n \in 0 .. MaxTopRows }) }

InitDash ==
    /\ pc = "metrics"
    /\ run = 1
    /\ now = 0
    /\ db = NoTable
    /\ tape = << >>
    /\ pos = 1
    /\ city_i = 1
    /\ remaining = 0
    /\ property_id = 1
    /\ properties = << >>
    /\ df \in DashTables
    /\ opportunity_data = NoOpportunity
    /\ size_bins = << >>
    /\ top_properties = << >>
    /\ cash_flow_tiers = << >>
    /\ gen_days = << >>
    /\ prev = NoPrev
    /\ db_before = NoTable

NextDash ==
    \/ ComputeMetrics
    \/ Opportunity
    \/ SizeBuckets
    \/ TopProperties
    \/ KeyPerformanceIndicators
    \/ ExecutiveSummary

SpecDash == InitDash /\ [][NextDash]_vars

(***************************************************************************)
(* create_investment_dashboard applied to a table fetch_sample_data        *)
(* returned: one record of each city, the draws of one of the two ranging  *)
(* over every rental yield and over the ends and the middle of the tax     *)
(* rates.                                                                  *)
(***************************************************************************)
\* np.random.uniform(0.008, 0.02), in ten-thousandths
RentalYields == 80 .. 199

\* np.random.uniform(0.008, 0.025), in ten-thousandths: the two lowest, the
\* middle and the two highest.
TaxRates == {80, 81, 165, 248, 249}

\* Bedrooms, deviation of the square feet and price variation: -100 square
\* feet (the price is raised to the minimum), 2100 square feet at the base
\* price, 1200.5 square feet a quarter above it.
Sizes == { <<2, -3800, 100>>, <<3, 0, 100>>, <<2, -1199, 125>> }

WideDraws ==
    { Draw(z[1], z[2], z[3], ry, tr, 30, 1) :
        z \in Sizes, ry \in RentalYields, tr \in TaxRates }

\* The lowest yield with the highest tax rate at the minimum price, and a
\* typical draw.
FewDraws ==
    { Draw(2, -3800, 100, 80, 249, 30, 1),
      Draw(3, 0, 100, 100, 120, 30, 1) }

DrawPairs == (WideDraws \X FewDraws) \cup (FewDraws \X WideDraws)

\* The stream and the list of an execution that drew one property for each
\* city, at clock value t.
StreamOf(pair) ==
    << [k |-> "count", v |-> 1], [k |-> "property", v |-> pair[1]],
       [k |-> "count", v |-> 1], [k |-> "property", v |-> pair[2]] >>

ListOf(pair, t) ==
    << PropertyData(1, cities[1], pair[1], t),
       PropertyData(2, cities[2], pair[2], t) >>

\* The state fetch_sample_data leaves when it returns such a list.
InitGenerated ==
    /\ pc = "metrics"
    /\ run = 1
    /\ now = 0
    /\ \E pair \in DrawPairs :
          /\ tape = StreamOf(pair)
          /\ properties = ListOf(pair, 0)
          /\ db = ToSql(NoTable, ListOf(pair, 0))
          /\ df = ListOf(pair, 0)
    /\ pos = 5
    /\ city_i = Len(cities) + 1
    /\ remaining = 0
    /\ property_id = 3
    /\ opportunity_data = NoOpportunity
    /\ size_bins = << >>
    /\ top_properties = << >>
    /\ cash_flow_tiers = << >>
    /\ gen_days = <<0, 0>>
    /\ prev = NoPrev
    /\ db_before = NoTable

NextGenerated ==
    \/ ComputeMetrics
    \/ Opportunity
    \/ SizeBuckets
    \/ TopProperties
    \/ KeyPerformanceIndicators
    \/ ExecutiveSummary

SpecGenerated == InitGenerated /\ [][NextGenerated]_vars

(***************************************************************************)
(* Properties of the generator and of the store.                           *)
(***************************************************************************)
\* fetch_sample_data has returned its table in this execution.
Returned ==
    pc \in {"metrics", "opportunity", "size", "top", "kpi", "summary", "done"}

WithoutListingDate(r) == [r EXCEPT !.listing_date = 0]

CityIndex(c) == CHOOSE k \in 1 .. Len(cities) : cities[k].city = c

\* C1, as stated: two executions with the same seed, city list and
\* base-price table return identical tables, listing_date included, whatever
\* the wall-clock time of each.
C1_IdenticalTables ==
    (Returned /\ prev.ok) => properties = prev.rows

\* C1, amended: the two tables have the same number of records and agree in
\* every field but listing_date; the listing_date of a record is the date
\* the record was generated on minus the same number of days in both, so the
\* two listing dates differ by as many days as the two generation dates.
\* The records of the later execution agree so with the earlier table from
\* the moment they are generated.
C1_IdenticalButListingDate ==
    (prev.ok /\ (Returned \/ pc \in {"city", "property"})) =>
        /\ Len(properties) <= Len(prev.rows)
        /\ Returned => Len(properties) = Len(prev.rows)
        /\ \A i \in 1 .. Len(properties) :
              /\ i <= Len(prev.rows)
              /\ WithoutListingDate(properties[i])
                    = WithoutListingDate(prev.rows[i])
              /\ properties[i].listing_date - prev.rows[i].listing_date
                    = gen_days[i] - prev.days[i]

\* Two executions returned tables that differ in a listing_date.
C1_Witness ==
    /\ Returned
    /\ prev.ok
    /\ Len(properties) >= 2
    /\ \E i \in 1 .. Len(properties) :
          properties[i].listing_date # prev.rows[i].listing_date

\* C2: the property_id values of the generated records are 1..N without gap
\* or duplicate, in generation order: the records of an earlier city of the
\* list have smaller ids than those of a later city, and ids increase within
\* a city.
C2_SequentialIds ==
    /\ \A i \in 1 .. Len(properties) : properties[i].property_id = i
    /\ \A i, j \in 1 .. Len(properties) :
          properties[i].property_id < properties[j].property_id =>
              CityIndex(properties[i].city) <= CityIndex(properties[j].city)
    /\ Returned =>
          { df[i].property_id : i \in 1 .. Len(df) } = 1 .. Len(df)

\* A returned table of at least three records of both cities.
C2_Witness ==
    /\ Returned
    /\ Len(properties) >= 3
    /\ { properties[i].city : i \in 1 .. Len(properties) }
          = { cities[k].city : k \in 1 .. Len(cities) }

\* C3: every generated record has price >= 50000, whatever square_feet and
\* price_variation were drawn, zero and negative values included.
C3_PriceFloor ==
    \A i \in 1 .. Len(properties) : properties[i].price >= 50000

\* A stream holding a draw of negative square feet and a draw of a price
\* variation that is not positive, both of which gave a record.
C3_Witness ==
    /\ Returned
    /\ \E i \in 1 .. Len(properties) :
          properties[i].square_feet < 0 /\ properties[i].price = 50000
    /\ \E q \in 1 .. Len(tape) :
          /\ tape[q].k = "property"
          /\ tape[q].v.price_variation <= 0
          /\ SquareFeet(tape[q].v) > 0

\* C8: after a completed run the stored table holds exactly the records the
\* run's fetch_sample_data generated, none of an earlier run and all of this
\* one, and its rows carry the base columns only.
C8_StoreIsLatestRun ==
    pc = "done" =>
        /\ db.exists
        /\ db.rows = properties
        /\ \A i \in 1 .. Len(db.rows) : DOMAIN db.rows[i] = BaseColumns

\* A second run has completed, its records differ from the first run's, and
\* its DataFrame has the derived columns.
C8_Witness ==
    /\ pc = "done"
    /\ run = 2
    /\ prev.ok
    /\ prev.rows # properties
    /\ \A i \in 1 .. Len(df) : "cap_rate" \in DOMAIN df[i]

\* C10, as stated: every generated record has square_feet > 0, whatever the
\* normal draw was, so that price_per_sqft is always defined and positive.
C10_PositiveSquareFeet ==
    /\ pc # "error"
    /\ \A i \in 1 .. Len(properties) :
          /\ properties[i].square_feet > 0
          /\ properties[i].price_per_sqft > 0

\* The execution has left the loops of fetch_sample_data by the exception.
Aborted == pc = "error" /\ city_i <= Len(cities)

\* C12: the store is written only after every record of every city has
\* been generated.  While the records are generated, and when the generation
\* aborts partway on a square_feet of 0, the stored table holds exactly the
\* records it held before the run, none of the new run and every prior one,
\* and nothing of the dashboard has been computed; when fetch_sample_data
\* has returned, the loops are finished and the stored table holds the
\* records of every city.
C12_StoreWrittenLast ==
    /\ (pc \in {"fetch", "city", "property"} \/ Aborted) =>
          db.rows = db_before.rows
    /\ (pc \in {"city", "property"} \/ Aborted) =>
          /\ df = NoFrame
          /\ opportunity_data = NoOpportunity
          /\ size_bins = << >>
          /\ top_properties = << >>
          /\ cash_flow_tiers = << >>
    /\ (pc = "idle" /\ run > 0 /\ ~prev.ok) => db.rows = db_before.rows
    /\ Returned =>
          /\ city_i > Len(cities)
          /\ remaining = 0
          /\ db.rows = properties
          /\ { db.rows[i].city : i \in 1 .. Len(db.rows) }
                = { cities[k].city : k \in 1 .. Len(cities) }

\* The generation aborted in the second city after it had made records, and
\* the stored table still holds the three records, none of them among the
\* new ones, that it held before the run.
C12_Witness ==
    /\ Aborted
    /\ city_i = 2
    /\ Len(properties) >= 1
    /\ Len(db_before.rows) = 3
    /\ db.rows = db_before.rows
    /\ \A i \in 1 .. Len(properties), j \in 1 .. Len(db.rows) :
          properties[i] # db.rows[j]
    /\ df = NoFrame

(***************************************************************************)
(* Properties of the metrics.                                              *)
(***************************************************************************)
MetricsDone == pc \in {"opportunity", "size", "top", "kpi", "summary", "done"}

OpportunityDone == pc \in {"size", "top", "kpi", "summary", "done"}

SizeDone == pc \in {"top", "kpi", "summary", "done"}

TopDone == pc \in {"kpi", "summary", "done"}

\* C4: monthly_cash_flow is estimated_rental_income - price*0.80*0.045/12 -
\* property_taxes/12 - estimated_rental_income*0.10 rounded to the nearest
\* integer (all of it times 6000 below); price=300000, rental=2000,
\* taxes=3600 gives 600; the value depends on these three columns only.
C4_MonthlyCashFlow ==
    MetricsDone =>
        /\ \A i \in Rows(df) :
              LET r == df[i]
                  unrounded6000 == 6000 * r.estimated_rental_income
                                     - 18 * r.price
                                     - 500 * r.property_taxes
                                     - 600 * r.estimated_rental_income
              IN  /\ 2 * Abs(6000 * r.monthly_cash_flow - unrounded6000) <= 6000
                  /\ (r.price = 300000 /\ r.estimated_rental_income = 2000
                        /\ r.property_taxes = 3600)
                        => r.monthly_cash_flow = 600
        /\ \A i, j \in Rows(df) :
              (/\ df[i].price = df[j].price
               /\ df[i].estimated_rental_income = df[j].estimated_rental_income
               /\ df[i].property_taxes = df[j].property_taxes)
                 => df[i].monthly_cash_flow = df[j].monthly_cash_flow

\* The metrics of a table that holds the row of the example and a row whose
\* unrounded cash flow is not an integer.
C4_Witness ==
    /\ MetricsDone
    /\ \E i \in Rows(df) :
          /\ df[i].price = 300000
          /\ df[i].estimated_rental_income = 2000
          /\ df[i].property_taxes = 3600
          /\ df[i].monthly_cash_flow = 600
    /\ \E i \in Rows(df) :
          (5400 * df[i].estimated_rental_income - 18 * df[i].price
             - 500 * df[i].property_taxes) % 6000 # 0

\* The sum of a column over the rows of a state, and the number of the rows.
ColSum(s, col) == SumOver(df, RowsOf(df, s), col)

Count(s) == Cardinality(RowsOf(df, s))

\* The mean of the column over state s is at most that over state t.
MeanLeq(s, t, col) == ColSum(s, col) * Count(t) <= ColSum(t, col) * Count(s)

Highest(col) == CHOOSE m \in States(df) : \A t \in States(df) : MeanLeq(t, m, col)

Lowest(col) == CHOOSE m \in States(df) : \A t \in States(df) : MeanLeq(m, t, col)

\* 50*(mean cap rate / highest) + 30*(mean cash flow / highest) +
\* 20*(lowest mean price / mean price) of the means themselves, in tenths.
ScoreOfMeans(s) ==
    LET mc == Highest("cap_rate")
        mf == Highest("monthly_cash_flow")
        mp == Lowest("price")
    IN  RoundSum3(500 * ColSum(s, "cap_rate") * Count(mc),
                  Count(s) * ColSum(mc, "cap_rate"),
                  300 * ColSum(s, "monthly_cash_flow") * Count(mf),
                  Count(s) * ColSum(mf, "monthly_cash_flow"),
                  200 * ColSum(mp, "price") * Count(s),
                  Count(mp) * ColSum(s, "price"))

MeansDivide ==
    /\ ColSum(Highest("cap_rate"), "cap_rate") # 0
    /\ ColSum(Highest("monthly_cash_flow"), "monthly_cash_flow") # 0

MeansPositive ==
    \A t \in States(df) :
        /\ ColSum(t, "cap_rate") > 0
        /\ ColSum(t, "monthly_cash_flow") > 0
        /\ ColSum(t, "price") > 0

BestOfMeans(s) ==
    /\ MeanLeq(Highest("cap_rate"), s, "cap_rate")
    /\ MeanLeq(Highest("monthly_cash_flow"), s, "monthly_cash_flow")
    /\ MeanLeq(s, Lowest("price"), "price")

\* C5, as stated: investment_score(s) is the 1-decimal rounding of the
\* weighted sum of the per-state means; with all means positive no state
\* scores above 100, and one scores 100 only if it has the highest mean cap
\* rate, the highest mean cash flow and the lowest mean price.
C5_ScoreOfMeans ==
    (OpportunityDone /\ Len(df) > 0 /\ MeansDivide) =>
        \A s \in DOMAIN opportunity_data :
            LET score == opportunity_data[s].investment_score
            IN  /\ score = Fin(ScoreOfMeans(s), 10)
                /\ MeansPositive =>
                      /\ score.n <= 1000
                      /\ score.n = 1000 => BestOfMeans(s)

\* C5, amended: investment_score(s) is the 1-decimal rounding of
\* 50*c/max c + 30*f/max f + 20*min p/p where c, f and p are the per-state
\* means of cap rate, cash flow and price each rounded to one decimal first
\* (not a number when max c or max f is 0); with all of them positive no
\* state scores above 100, and a state with the highest c, the highest f and
\* the lowest p scores 100 (as may a state that is not the best in all
\* three, by the rounding of the score).
C5_ScoreOfRoundedMeans ==
    OpportunityDone =>
        /\ DOMAIN opportunity_data = States(df)
        /\ \A s \in States(df) :
              LET c == GroupMean(df, s, "cap_rate", 100)
                  f == GroupMean(df, s, "monthly_cash_flow", 1)
                  p == GroupMean(df, s, "price", 1)
                  cs == { GroupMean(df, t, "cap_rate", 100) : t \in States(df) }
                  fs == { GroupMean(df, t, "monthly_cash_flow", 1) :
                            t \in States(df) }
                  ps == { GroupMean(df, t, "price", 1) : t \in States(df) }
                  score == opportunity_data[s].investment_score
              IN  /\ (SetMax(cs) # 0 /\ SetMax(fs) # 0) =>
                        score = Fin(RoundSum3(500 * c, SetMax(cs),
                                              300 * f, SetMax(fs),
                                              200 * SetMin(ps), p), 10)
                  /\ (SetMax(cs) = 0 \/ SetMax(fs) = 0) => score.k # "fin"
                  /\ (\A x \in cs \cup fs \cup ps : x > 0) =>
                        /\ score.n <= 1000
                        /\ (c = SetMax(cs) /\ f = SetMax(fs) /\ p = SetMin(ps))
                              => score.n = 1000

\* Two states whose scores are numbers, one of them not the rounding of the
\* weighted sum of the unrounded means, and one of them below 100.
C5_Witness ==
    /\ OpportunityDone
    /\ Cardinality(DOMAIN opportunity_data) = 2
    /\ MeansDivide
    /\ \A s \in DOMAIN opportunity_data :
          opportunity_data[s].investment_score.k = "fin"
    /\ \E s \in DOMAIN opportunity_data :
          opportunity_data[s].investment_score.n # ScoreOfMeans(s)
    /\ \E s \in DOMAIN opportunity_data :
          opportunity_data[s].investment_score.n < 1000

\* The bucket C6 gives a size: lower bounds inclusive, the last bucket
\* unbounded.
ClaimedBucket(x) ==
    IF x < 1000 THEN "<1000"
    ELSE IF x < 1500 THEN "1000-1500"
    ELSE IF x < 2000 THEN "1500-2000"
    ELSE ">2000"

\* C6, as stated: every property with square_feet >= 0 is in exactly one
\* bucket, [0,1000) -> '<1000', [1000,1500) -> '1000-1500', [1500,2000) ->
\* '1500-2000', [2000,infinity) -> '>2000'.
C6_LeftClosedBuckets ==
    SizeDone =>
        \A i \in Rows(df) :
            df[i].square_feet >= 0 =>
                size_bins[i] = ClaimedBucket(df[i].square_feet)

Score(i) == df[i].simple_score

Selected == { top_properties[q] : q \in DOMAIN top_properties }

\* Two floats are numbers and equal.
SameScore(x, y) == x.k # "nan" /\ x.k = y.k /\ x.n = y.n

\* C7: the selection over n rows returns min(5, n) rows ordered by
\* simple_score = cap_rate*0.4 + (monthly_cash_flow / max * 10)*0.6
\* descending, no unselected row scores strictly higher than a selected one,
\* and rows of equal score appear, and are selected, in their original order.
C7_TopFive ==
    TopDone =>
        /\ Len(top_properties) = IF Len(df) < 5 THEN Len(df) ELSE 5
        /\ Selected \subseteq Rows(df)
        /\ Cardinality(Selected) = Len(top_properties)
        /\ \A i \in Rows(df) :
              LET mx == SetMax({ df[j].monthly_cash_flow : j \in Rows(df) })
              IN  mx # 0 =>
                    /\ Score(i).k = "fin"
                    /\ Score(i).d = 1000 * Abs(mx)
                    /\ Score(i).n = Sgn(mx) * (4 * df[i].cap_rate * mx
                                                + 6000 * df[i].monthly_cash_flow)
        /\ \A q, u \in DOMAIN top_properties :
              q < u =>
                /\ ~Greater(Score(top_properties[u]), Score(top_properties[q]))
                /\ SameScore(Score(top_properties[q]), Score(top_properties[u]))
                      => top_properties[q] < top_properties[u]
        /\ \A i \in Selected, j \in Rows(df) \ Selected :
              /\ ~Greater(Score(j), Score(i))
              /\ SameScore(Score(i), Score(j)) => i < j

\* Six rows, five selected: two of them score the same, two differently,
\* and an unselected row scores the same as a selected one.
C7_Witness ==
    /\ TopDone
    /\ Len(df) = 6
    /\ Len(top_properties) = 5
    /\ \E q \in 1 .. 4 :
          SameScore(Score(top_properties[q]), Score(top_properties[q + 1]))
    /\ \E q \in 1 .. 4 :
          Greater(Score(top_properties[q]), Score(top_properties[q + 1]))
    /\ \E i \in Selected, j \in Rows(df) \ Selected :
          Score(i).k = "fin" /\ SameScore(Score(i), Score(j))

\* A denominator of a normalization is zero, or the table is empty.
Degenerate ==
    \/ Len(df) = 0
    \/ SetMax({ GroupMean(df, t, "cap_rate", 100) : t \in States(df) }) = 0
    \/ SetMax({ GroupMean(df, t, "monthly_cash_flow", 1) : t \in States(df) }) = 0
    \/ SetMin({ GroupMean(df, t, "price", 1) : t \in States(df) }) = 0
    \/ SetMax({ df[i].monthly_cash_flow : i \in Rows(df) }) = 0

\* C9, as stated: given a degenerate table the run ends in a fatal error
\* before any score is produced; it never continues with an investment_score
\* or a simple_score that is NaN or infinite.
C9_DegenerateIsFatal ==
    /\ \A s \in DOMAIN opportunity_data :
          opportunity_data[s].investment_score.k = "fin"
    /\ \A i \in Rows(df) :
          "simple_score" \in DOMAIN df[i] => df[i].simple_score.k = "fin"
    /\ (MetricsDone /\ Degenerate) =>
          /\ opportunity_data = NoOpportunity
          /\ pc # "done"

\* C11: every record fetch_sample_data produced has monthly_cash_flow > 0
\* once the metrics are computed (price >= 50000, the rental income and the
\* taxes being the truncations of price*u and price*t for u in [0.008, 0.02)
\* and t in [0.008, 0.025)); hence no record is in the 'Negative' cash-flow
\* tier, and the maximum monthly_cash_flow that a normalization divides by,
\* of the per-state means and of the rows, is positive.
C11_PositiveCashFlow ==
    /\ \A i \in Rows(df) :
          /\ df[i].price >= 50000
          /\ 10000 * df[i].estimated_rental_income >= 80 * df[i].price - 9999
          /\ 10000 * df[i].property_taxes <= 249 * df[i].price
    /\ MetricsDone =>
          /\ \A i \in Rows(df) : df[i].monthly_cash_flow > 0
          /\ SetMax({ df[i].monthly_cash_flow : i \in Rows(df) }) > 0
    /\ OpportunityDone =>
          SetMax({ opportunity_data[s].monthly_cash_flow :
                     s \in DOMAIN opportunity_data }) > 0
    /\ pc = "done" =>
          /\ Len(cash_flow_tiers) = Len(df)
          /\ \A i \in Rows(df) : cash_flow_tiers[i] # "Negative"

\* The summary of a table that holds the record of the smallest margin, the
\* minimum price with the lowest yield and the highest tax rate, whose cash
\* flow is in the lowest positive tier, and a record of the highest tier.
C11_Witness ==
    /\ pc = "done"
    /\ \E i \in Rows(df) :
          /\ df[i].price = 50000
          /\ df[i].estimated_rental_income = 400
          /\ df[i].property_taxes = 1245
          /\ df[i].monthly_cash_flow = 106
          /\ cash_flow_tiers[i] = "Low (0-$200)"
    /\ \E i \in Rows(df) : cash_flow_tiers[i] = "High ($500+)"

====
